---------------------------- MODULE Spec2Model ----------------------------
(***************************************************************************)
(* A model of backend/deploy_manager.py: the endpoint selection of main(), *)
(* the artifact resolver and loader of DeployManager, deploy_contract, the *)
(* validation and orchestration of main() and the __main__ exit handler.   *)
(*                                                                         *)
(* Text is modelled as a sequence of chunks.  A chunk stands for a piece   *)
(* of text the code tests for: "P" is the substring PLACEHOLDER, "0x" the  *)
(* hex prefix, "," a comma, " " white space; every other chunk is opaque.  *)
(* Python's None is the one-chunk text <<"None">>, which no input holds.   *)
(***************************************************************************)
EXTENDS Integers, Sequences, FiniteSets, TLC

(***************************************************************************)
(* Bounds of the model.                                                    *)
(***************************************************************************)
\* modification times of artifact directories range over 0..MaxMtime
MaxMtime == 3
\* the glob returns at most MaxDirs entries
MaxDirs == 3

None == <<"None">>

(***************************************************************************)
(* Python text operations used by the code.                                *)
(***************************************************************************)
\* `not s` for an optional text: None and the empty text are falsy
falsy(s) == s = None \/ s = <<>>

\* `"PLACEHOLDER" in s`
contains_placeholder(s) == \E i \in 1..Len(s) : s[i] = "P"

\* `s.startswith('0x')`
startswith_0x(s) == Len(s) > 0 /\ s[1] = "0x"

RECURSIVE lstrip(_)
lstrip(s) == IF s # <<>> /\ Head(s) = " " THEN lstrip(Tail(s)) ELSE s

RECURSIVE rstrip(_)
rstrip(s) ==
    IF s # <<>> /\ s[Len(s)] = " " THEN rstrip(SubSeq(s, 1, Len(s) - 1)) ELSE s

\* `s.strip()`
strip(s) == rstrip(lstrip(s))

\* `s.split(',')`: the pieces between commas, empty pieces kept
RECURSIVE split_from(_, _, _)
split_from(s, i, cur) ==
    IF i > Len(s) THEN <<cur>>
    ELSE IF s[i] = "," THEN <<cur>> \o split_from(s, i + 1, <<>>)
    ELSE split_from(s, i + 1, Append(cur, s[i]))

split(s) == split_from(s, 1, <<>>)

\* The well-formed addresses of the model: two wallets, a token, the address
\* derived from the signing key, and the two addresses a receipt may carry.
DeployerAddress == <<"0xDeployer">>
Addresses ==
    {<<"0xAAA">>, <<"0xBBB">>, <<"0xToken">>, DeployerAddress,
     <<"0xGen">>, <<"0xDist">>}

\* Web3.is_address(s)
is_address(s) == s \in Addresses

\* Account.from_key(pk): the account of a well-formed key, an error otherwise
from_key(pk) ==
    IF pk = <<"0x", "key">> THEN [ok |-> TRUE, address |-> DeployerAddress]
    ELSE [ok |-> FALSE, address |-> None]

(***************************************************************************)
(* NETWORK_CONFIGS: only the rpcUrls of the networks are read by the code. *)
(***************************************************************************)
NETWORK_CONFIGS ==
    [name \in {"sepolia", "polygon", "mumbai", "bsc", "bsc-testnet"} |->
        CASE name = "sepolia" ->
               <<<<"https://rpc.sepolia.org">>,
                 <<"https://eth-sepolia.g.alchemy.com/v2/demo">>,
                 <<"https://sepolia.infura.io/v3/YOUR_INFURA_PROJECT_ID">>,
                 <<"https://ethereum-sepolia.publicnode.com">>>>
          [] name = "polygon" ->
               <<<<"https://polygon-rpc.com">>,
                 <<"https://rpc-mainnet.maticvigil.com">>,
                 <<"https://nd-144-848-522.p2pify.com/8390b396e95c479e950882e37cf7135e">>>>
          [] name = "mumbai" ->
               <<<<"https://rpc-mumbai.maticvigil.com">>,
                 <<"https://polygon-mumbai.infura.io/v3/YOUR_INFURA_PROJECT_ID">>>>
          [] name = "bsc" ->
               <<<<"https://bsc-dataseed.binance.org/">>,
                 <<"https://bsc-dataseed1.defibit.io/">>>>
          [] OTHER ->
               <<<<"https://data-seed-prebsc-1-s1.binance.org:8545/">>,
                 <<"https://data-seed-prebsc-2-s1.binance.org:8545/">>>>]

default_network_key == "sepolia"

\* network_config['rpcUrls'] of the default network
rpcUrls == NETWORK_CONFIGS[default_network_key]


(***************************************************************************)
(* Results of calls: ok with a value, or a raised exception.               *)
(***************************************************************************)
Return(v) == [ok |-> TRUE, value |-> v, error |-> "none"]
Raise(e) == [ok |-> FALSE, value |-> None, error |-> e]

(***************************************************************************)
(* The working directory.  A filesystem fs is a record:                    *)
(*   glob  - what glob.glob('artifacts-*') returns, in its order: entries  *)
(*           [name, isdir, mtime];                                         *)
(*   files - the JSON files that exist, each [path, json_ok, abi,          *)
(*           bytecode]; abi and bytecode are None when the key is absent.  *)
(***************************************************************************)
ContractNames == {"QuantumAPIKeyGenerator", "RevenueDistributor"}

contract_file_map ==
    [n \in ContractNames |->
        IF n = "QuantumAPIKeyGenerator" THEN "APIKeyGenerator.sol"
        ELSE "RevenueDistributor.sol"]

\* os.path.join(latest_artifact_dir, 'contracts', solidity_file_name,
\*              f'{contract_name}.json')
artifact_file_path(dir, contract_name) ==
    dir \o <<"/contracts/", contract_file_map[contract_name], "/", contract_name, ".json">>

\* The loop over artifact_dirs: from entry i on, with the latest directory
\* and modification time found so far.
RECURSIVE scan_artifact_dirs(_, _, _, _)
scan_artifact_dirs(artifact_dirs, i, latest_artifact_dir, latest_mod_time) ==
    IF i > Len(artifact_dirs) THEN latest_artifact_dir
    ELSE LET adir == artifact_dirs[i]
         IN IF adir.isdir /\ adir.mtime > latest_mod_time
            THEN scan_artifact_dirs(artifact_dirs, i + 1, adir.name, adir.mtime)
            ELSE scan_artifact_dirs(artifact_dirs, i + 1, latest_artifact_dir,
                                    latest_mod_time)

\* The body of DeployManager._get_latest_artifact_path
_get_latest_artifact_path(contract_name, fs) ==
    IF contract_name \notin DOMAIN contract_file_map
    THEN Raise("ValueError: unknown contract name")
    ELSE IF fs.glob = <<>>
    THEN Raise("FileNotFoundError: no artifact directory")
    ELSE LET latest_artifact_dir == scan_artifact_dirs(fs.glob, 1, None, 0)
         IN IF latest_artifact_dir = None
            THEN Raise("FileNotFoundError: no latest artifact directory")
            ELSE LET path == artifact_file_path(latest_artifact_dir, contract_name)
                 IN IF \A f \in fs.files : f.path # path
                    THEN Raise("FileNotFoundError: artifact not found")
                    ELSE Return([kind |-> "path", path |-> path])

\* What a plain call of an `async def` method evaluates to: a coroutine
\* object.  The body runs only when the coroutine is awaited.
coroutine_object(body_result) == Return([kind |-> "coroutine", path |-> <<>>])

\* `with open(artifact_path, 'r') as f: artifact = json.load(f)`
open_and_load_json(artifact_path, fs) ==
    IF artifact_path.kind # "path"
    THEN Raise("TypeError: expected str, bytes or os.PathLike object, not coroutine")
    ELSE IF \A f \in fs.files : f.path # artifact_path.path
    THEN Raise("FileNotFoundError: open")
    ELSE LET f == CHOOSE g \in fs.files : g.path = artifact_path.path
         IN IF ~f.json_ok THEN Raise("JSONDecodeError") ELSE Return(f)

\* Lines 148-160 of load_contract_artifacts, given what line 147 bound
\* artifact_path to.
read_artifact(located, fs) ==
    IF ~located.ok THEN located
    ELSE LET opened == open_and_load_json(located.value, fs)
         IN IF ~opened.ok THEN opened
            ELSE IF falsy(opened.value.abi)
            THEN Raise("ValueError: ABI not found")
            ELSE IF falsy(opened.value.bytecode)
            THEN Raise("ValueError: Bytecode not found")
            ELSE Return(opened.value)

\* load_contract_artifacts had it awaited the resolver.
load_contract_artifacts_awaiting(contract_name, fs) ==
    read_artifact(_get_latest_artifact_path(contract_name, fs), fs)

\* DeployManager.load_contract_artifacts.  It is a plain method that calls
\* the `async def` resolver without awaiting it, so artifact_path is bound
\* to the coroutine object and never to the resolver's result.
load_contract_artifacts(contract_name, fs) ==
    read_artifact(coroutine_object(_get_latest_artifact_path(contract_name, fs)), fs)

(***************************************************************************)
(* deploy_contract.  env is os.environ; node[c] says how the RPC node       *)
(* answers during the deployment of contract c: "not_connected" when       *)
(* is_connected() returns False, "rpc_error" when the submission raises,   *)
(* "no_address" when the receipt carries no contractAddress, "address"     *)
(* when it carries one.                                                    *)
(* A dict is a set of <<key, value>> pairs.                                *)
(***************************************************************************)
\* The contractAddress of the receipt of each creation transaction
ReceiptAddress ==
    [c \in ContractNames |->
        IF c = "QuantumAPIKeyGenerator" THEN <<"0xGen">> ELSE <<"0xDist">>]

dict_set(d, k, v) == {p \in d : p[1] # k} \cup {<<k, v>>}
dict_keys(d) == {p[1] : p \in d}

Line(text, about) == [line |-> text, about |-> about, json |-> {}]
Call(op, contract_name, args) == [op |-> op, contract |-> contract_name, args |-> args]

TxQueries == {"chain_id", "gas_price", "get_transaction_count"}

deploy_contract(contract_name, constructor_args, deployed_contracts, env, fs, node) ==
    LET failed(e, calls, out) ==
            [ok |-> FALSE, value |-> None, error |-> e, calls |-> calls,
             stdout |-> Append(out, Line("Error during deployment of", contract_name)),
             deployed_contracts |-> deployed_contracts]
        loaded == load_contract_artifacts(contract_name, fs)
        out1 == <<Line("Successfully loaded ABI and Bytecode for", contract_name)>>
        calls1 == <<Call("is_connected", contract_name, <<>>)>>
        private_key == env.PRIVATE_KEY
        pk == IF startswith_0x(private_key) THEN private_key
              ELSE <<"0x">> \o private_key
        deployer_account == from_key(pk)
        out2 == Append(out1, Line("Deploying", contract_name))
        calls2 == calls1 \o <<Call("chain_id", contract_name, <<>>),
                              Call("gas_price", contract_name, <<>>),
                              Call("get_transaction_count", contract_name, <<>>)>>
        calls3 == Append(calls2,
                         Call("send_raw_transaction", contract_name, constructor_args))
        out3 == Append(out2, Line("Transaction sent for", contract_name))
        calls4 == Append(calls3,
                         Call("wait_for_transaction_receipt", contract_name, <<>>))
        deployed_address == IF node[contract_name] = "address"
                            THEN ReceiptAddress[contract_name] ELSE None
    IN IF ~loaded.ok THEN failed(loaded.error, <<>>, <<>>)
       ELSE IF node[contract_name] = "not_connected"
       THEN failed("ConnectionError: Web3 is not connected", calls1, out1)
       ELSE IF falsy(private_key) \/ contains_placeholder(private_key)
       THEN failed("ValueError: PRIVATE_KEY missing or placeholder", calls1, out1)
       ELSE IF ~deployer_account.ok
       THEN failed("ValueError: invalid private key", calls1, out1)
       ELSE IF node[contract_name] = "rpc_error"
       THEN failed("RPC error", calls3, out2)
       ELSE IF falsy(deployed_address)
       THEN failed("Exception: No address returned in receipt", calls4, out3)
       ELSE [ok |-> TRUE, value |-> deployed_address, error |-> "none",
             calls |-> calls4,
             stdout |-> Append(out3, Line("Contract deployed:", contract_name)),
             deployed_contracts |->
                 dict_set(deployed_contracts, contract_name, deployed_address)]

(***************************************************************************)
(* main() from line 267 on, and the handler of __main__.                   *)
(***************************************************************************)
sepolia_eth_usd_price_feed_address == <<"0x694AA1769357215Ee4EfB405d6fD64cbbE9d5f7B">>

\* The loop over usdt_wallets_env.split(','): the wallets collected, or the
\* error of the first entry that is no address.
RECURSIVE parse_recipients(_, _, _)
parse_recipients(pieces, i, recipient_wallets) ==
    IF i > Len(pieces) THEN Return(recipient_wallets)
    ELSE LET stripped_addr == strip(pieces[i])
         IN IF is_address(stripped_addr)
            THEN parse_recipients(pieces, i + 1, Append(recipient_wallets, stripped_addr))
            ELSE Raise("ValueError: Invalid Ethereum address found in USDT_WALLETS")

\* Lines 313-331: the gas wallet of the environment, or the signer's address
gas_wallet(env) ==
    IF ~falsy(env.GAS_WALLET) /\ ~contains_placeholder(env.GAS_WALLET)
       /\ is_address(env.GAS_WALLET)
    THEN Return(env.GAS_WALLET)
    ELSE LET pk == IF startswith_0x(env.PRIVATE_KEY) THEN env.PRIVATE_KEY
                   ELSE <<"0x">> \o env.PRIVATE_KEY
             account == from_key(pk)
         IN IF ~account.ok
            THEN Raise("ValueError: Failed to derive valid gas wallet address")
            ELSE IF falsy(account.address) \/ ~is_address(account.address)
            THEN Raise("ValueError: No valid gas wallet address")
            ELSE Return(account.address)

\* How a run that left main() ends: the summary printed and exit code 0, or
\* the exception reported on stderr and exit(1).
Ended(error, calls, out, deployed_contracts, deployed_addresses) ==
    [error |-> error, calls |-> calls, stdout |-> out,
     stderr |-> IF error = "none" THEN <<>>
                ELSE <<Line("Script terminated due to critical error", error)>>,
     deployed_contracts |-> deployed_contracts,
     deployed_addresses |-> deployed_addresses,
     exit_code |-> IF error = "none" THEN 0 ELSE 1]

\* Lines 267-354 of main() and lines 356-363: the two deployments, the
\* validation between them, the summary and the exit code.
run_deployments(env, fs, node) ==
    LET out0 == <<Line("Attempting to deploy", "QuantumAPIKeyGenerator")>>
        first == deploy_contract("QuantumAPIKeyGenerator",
                                 <<sepolia_eth_usd_price_feed_address>>,
                                 {}, env, fs, node)
        out1 == out0 \o first.stdout
        addresses1 == {<<"API_KEY_GENERATOR_ADDRESS", first.value>>}
        out2 == Append(out1, Line("Attempting to deploy", "RevenueDistributor"))
        stop(e, out) == Ended(e, first.calls, out, first.deployed_contracts, addresses1)
        parsed == parse_recipients(split(env.USDT_WALLETS), 1, <<>>)
        out3 == Append(out2, Line("Using recipient wallets from ENV", ""))
        gas == gas_wallet(env)
        out4 == Append(out3, Line("Gas wallet determined", ""))
        out5 == Append(out4, Line("Using USDT token address from ENV", ""))
        second == deploy_contract("RevenueDistributor",
                                  <<parsed.value, gas.value, env.USDT_TOKEN_ADDRESS>>,
                                  first.deployed_contracts, env, fs, node)
        out6 == out5 \o second.stdout
        calls6 == first.calls \o second.calls
        addresses2 == dict_set(addresses1, "SMART_CONTRACT_ADDRESS", second.value)
    IN IF ~first.ok THEN Ended(first.error, first.calls, out1, first.deployed_contracts, {})
       ELSE IF falsy(first.value)
       THEN Ended("Exception: QuantumAPIKeyGenerator deployment failed unexpectedly",
                  first.calls, out1, first.deployed_contracts, {})
       ELSE IF falsy(env.PRIVATE_KEY) \/ contains_placeholder(env.PRIVATE_KEY)
       THEN stop("ValueError: PRIVATE_KEY missing or placeholder", out2)
       ELSE IF falsy(env.USDT_WALLETS) \/ contains_placeholder(env.USDT_WALLETS)
       THEN stop("ValueError: USDT_WALLETS missing or placeholder", out2)
       ELSE IF ~parsed.ok THEN stop(parsed.error, out2)
       ELSE IF parsed.value = <<>>
       THEN stop("ValueError: USDT_WALLETS contains no valid Ethereum addresses", out2)
       ELSE IF ~gas.ok THEN stop(gas.error, out3)
       ELSE IF falsy(env.USDT_TOKEN_ADDRESS)
               \/ contains_placeholder(env.USDT_TOKEN_ADDRESS)
               \/ ~is_address(env.USDT_TOKEN_ADDRESS)
       THEN stop("ValueError: USDT_TOKEN_ADDRESS missing, placeholder or invalid", out4)
       ELSE IF ~second.ok
       THEN Ended(second.error, calls6, out6, second.deployed_contracts, addresses1)
       ELSE IF falsy(second.value)
       THEN Ended("Exception: RevenueDistributor deployment failed unexpectedly",
                  calls6, out6, second.deployed_contracts, addresses1)
       ELSE Ended("none", calls6,
                  Append(out6, [line |-> "json", about |-> "", json |-> addresses2]),
                  second.deployed_contracts, addresses2)

(***************************************************************************)
(* The inputs of a run.                                                    *)
(***************************************************************************)
\* RPC_URL: unset, empty, a placeholder, a node of the user's, or the URL
\* that is also the first candidate of the default network
RpcUrlValues ==
    {None, <<>>, <<"https://", "P">>, <<"https://my-node.example">>, rpcUrls[1]}

\* What a liveness probe does: is_connected() returns True or False, or
\* building the provider or probing raises.
ProbeOutcomes == {"connected", "not_connected", "raises"}

\* unset, a placeholder, a key without and with the hex prefix
PrivateKeyValues == {None, <<"P">>, <<"key">>, <<"0x", "key">>}

\* unset, "0xAAA, 0xBBB", "0xAAA,  0xBBB ,invalid"
UsdtWalletsValues ==
    {None,
     <<"0xAAA", ",", " ", "0xBBB">>,
     <<"0xAAA", ",", " ", " ", "0xBBB", " ", ",", "invalid">>}

GasWalletValues == {None, <<"0xAAA">>}

UsdtTokenValues == {<<"0xToken">>, <<"P">>}

Envs ==
    [PRIVATE_KEY : PrivateKeyValues, USDT_WALLETS : UsdtWalletsValues,
     GAS_WALLET : GasWalletValues, USDT_TOKEN_ADDRESS : UsdtTokenValues]

DirName(i) == <<"artifacts-", ToString(i)>>

\* The artifact of a contract in a directory
Artifact(dir, contract_name, abi, bytecode) ==
    [path |-> artifact_file_path(dir, contract_name), json_ok |-> TRUE,
     abi |-> abi, bytecode |-> bytecode]

\* The working directories of a run of main(): no artifact directory, one
\* with both artifacts complete, one whose first artifact lacks bytecode.
Filesystems ==
    {[glob |-> <<>>, files |-> {}],
     [glob |-> <<[name |-> DirName(1), isdir |-> TRUE, mtime |-> 1]>>,
      files |-> {Artifact(DirName(1), c, <<"abi">>, <<"0x", "code">>) : c \in ContractNames}],
     [glob |-> <<[name |-> DirName(1), isdir |-> TRUE, mtime |-> 1]>>,
      files |-> {Artifact(DirName(1), "QuantumAPIKeyGenerator", <<"abi">>, None),
                 Artifact(DirName(1), "RevenueDistributor", <<"abi">>, <<"0x", "code">>)}]}

NodeBehaviours == {"not_connected", "rpc_error", "no_address", "address"}

Nodes == [ContractNames -> NodeBehaviours]

(***************************************************************************)
(* The state of a run.                                                     *)
(***************************************************************************)
VARIABLES
    pc,                 \* where main() is: start, fallback, final_check,
                        \* deploy, exited (resolve, resolved: SpecResolve)
    rpc_url_env,        \* os.environ.get('RPC_URL'), once read
    web3_instance,      \* the URL the connection is bound to, or None
    connected_rpc,
    rpc_index,          \* the position of the loop over rpcUrls
    probes,             \* the liveness probes made by main(), in order
    env,                \* the environment read from line 174 on
    fs,                 \* the working directory
    node,               \* how the node answers during the deployments
    calls,              \* the calls deploy_contract made on the connection
    stdout,
    stderr,
    deployed_contracts, \* DeployManager.deployed_contracts
    deployed_addresses,
    error,              \* the exception that ended main(), or "none"
    exit_code,          \* -1 while the process runs
    resolved            \* SpecResolve: the resolver's call and result

vars ==
    <<pc, rpc_url_env, web3_instance, connected_rpc, rpc_index, probes, env, fs,
      node, calls, stdout, stderr, deployed_contracts, deployed_addresses, error,
      exit_code, resolved>>

NoEnv ==
    [PRIVATE_KEY |-> None, USDT_WALLETS |-> None, GAS_WALLET |-> None,
     USDT_TOKEN_ADDRESS |-> None]
NoFs == [glob |-> <<>>, files |-> {}]
NoNode == [c \in ContractNames |-> "not_connected"]
NotResolved == [contract_name |-> "", result |-> Raise("none")]

Init ==
    /\ pc = "start"
    /\ rpc_url_env = None
    /\ web3_instance = None
    /\ connected_rpc = None
    /\ rpc_index = 1
    /\ probes = <<>>
    /\ env = NoEnv
    /\ fs = NoFs
    /\ node = NoNode
    /\ calls = <<>>
    /\ stdout = <<>>
    /\ stderr = <<>>
    /\ deployed_contracts = {}
    /\ deployed_addresses = {}
    /\ error = "none"
    /\ exit_code = -1
    /\ resolved = NotResolved

Probe(via, url, outcome) == [via |-> via, url |-> url, outcome |-> outcome]

\* The exception leaves main(): lines 360-363 report it and exit(1).
Exit1(e) ==
    /\ pc' = "exited"
    /\ error' = e
    /\ stderr' = Append(stderr, Line("Script terminated due to critical error", e))
    /\ exit_code' = 1

\* ProbeEnv had the fallbacks not been guarded by `if not web3_instance`:
\* the candidates are tried even after RPC_URL answered.
ProbeEnv_unguarded_fallback ==
    /\ pc = "start"
    /\ \E url \in RpcUrlValues, outcome \in ProbeOutcomes :
        /\ rpc_url_env' = url
        /\ IF ~falsy(url) /\ ~contains_placeholder(url)
           THEN /\ probes' = Append(probes, Probe("env", url, outcome))
                /\ web3_instance' = IF outcome = "connected" THEN url ELSE None
                /\ connected_rpc' = IF outcome = "connected" THEN url ELSE None
           ELSE /\ outcome = "not_connected"
                /\ UNCHANGED <<probes, web3_instance, connected_rpc>>
    /\ stdout' = Append(stdout, Line("RPC_URL handled", ""))
    /\ pc' = "fallback"
    /\ rpc_index' = 1
    /\ UNCHANGED <<env, fs, node, calls, stderr, deployed_contracts,
                   deployed_addresses, error, exit_code, resolved>>

\* Lines 221-239: read RPC_URL and, when it is usable, probe it once.
ProbeEnv ==
    /\ pc = "start"
    /\ \E url \in RpcUrlValues, outcome \in ProbeOutcomes :
        /\ rpc_url_env' = url
        /\ IF ~falsy(url) /\ ~contains_placeholder(url)
           THEN /\ probes' = Append(probes, Probe("env", url, outcome))
                /\ web3_instance' = IF outcome = "connected" THEN url ELSE None
                /\ connected_rpc' = IF outcome = "connected" THEN url ELSE None
                /\ stdout' = stdout \o
                     <<Line("Attempting to connect to RPC_URL from environment", ""),
                       Line(CASE outcome = "connected" ->
                                   "Successfully connected to RPC from environment"
                              [] outcome = "not_connected" ->
                                   "Failed to connect to RPC from environment"
                              [] OTHER -> "Error with RPC_URL from environment", "")>>
                     \o (IF outcome = "connected" THEN <<>>
                         ELSE <<Line("Attempting to connect using multiple RPCs", "")>>)
                /\ pc' = IF outcome = "connected" \/ rpcUrls = <<>>
                         THEN "final_check" ELSE "fallback"
           ELSE /\ outcome = "not_connected"
                /\ stdout' = stdout \o
                     <<Line("RPC_URL is missing or a placeholder", ""),
                       Line("Attempting to connect using multiple RPCs", "")>>
                /\ pc' = IF rpcUrls = <<>> THEN "final_check" ELSE "fallback"
                /\ UNCHANGED <<probes, web3_instance, connected_rpc>>
    /\ rpc_index' = 1
    /\ UNCHANGED <<env, fs, node, calls, stderr, deployed_contracts,
                   deployed_addresses, error, exit_code, resolved>>

\* ProbeFallback had the loop no `break`: it goes on to the next candidate
\* after one answered.
ProbeFallback_no_break ==
    /\ pc = "fallback"
    /\ rpc_index <= Len(rpcUrls)
    /\ \E outcome \in ProbeOutcomes :
        LET rpc_url == rpcUrls[rpc_index]
        IN /\ probes' = Append(probes, Probe("fallback", rpc_url, outcome))
           /\ web3_instance' = IF outcome = "connected" THEN rpc_url ELSE web3_instance
           /\ connected_rpc' = IF outcome = "connected" THEN rpc_url ELSE connected_rpc
    /\ stdout' = Append(stdout, Line("fallback RPC tried", ""))
    /\ rpc_index' = rpc_index + 1
    /\ pc' = IF rpc_index + 1 > Len(rpcUrls) THEN "final_check" ELSE "fallback"
    /\ UNCHANGED <<rpc_url_env, env, fs, node, calls, stderr, deployed_contracts,
                   deployed_addresses, error, exit_code, resolved>>

\* Lines 250-261: one turn of the loop over the default network's rpcUrls.
ProbeFallback ==
    /\ pc = "fallback"
    /\ rpc_index <= Len(rpcUrls)
    /\ \E outcome \in ProbeOutcomes :
        LET rpc_url == rpcUrls[rpc_index]
        IN /\ probes' = Append(probes, Probe("fallback", rpc_url, outcome))
           /\ IF outcome = "connected"
              THEN /\ web3_instance' = rpc_url
                   /\ connected_rpc' = rpc_url
                   /\ stdout' = Append(stdout,
                                  Line("Successfully connected via fallback RPC", ""))
                   /\ pc' = "final_check"
                   /\ UNCHANGED rpc_index
              ELSE /\ stdout' = Append(stdout,
                                  Line(IF outcome = "not_connected"
                                       THEN "Failed to connect to fallback RPC"
                                       ELSE "Error with fallback RPC", ""))
                   /\ rpc_index' = rpc_index + 1
                   /\ pc' = IF rpc_index + 1 > Len(rpcUrls)
                            THEN "final_check" ELSE "fallback"
                   /\ UNCHANGED <<web3_instance, connected_rpc>>
    /\ UNCHANGED <<rpc_url_env, env, fs, node, calls, stderr, deployed_contracts,
                   deployed_addresses, error, exit_code, resolved>>

\* FinalCheck had lines 264-265 been left out: main() goes on to the
\* deployments whether or not a connection was made.
FinalCheck_missing ==
    /\ pc = "final_check"
    /\ pc' = "deploy"
    /\ UNCHANGED <<rpc_url_env, web3_instance, connected_rpc, rpc_index, probes,
                   env, fs, node, calls, stdout, stderr, deployed_contracts,
                   deployed_addresses, error, exit_code, resolved>>

\* Lines 263-265: without a connection main() raises; with one it asks
\* is_connected() once more, outside any try.
FinalCheck ==
    /\ pc = "final_check"
    /\ IF web3_instance = None
       THEN /\ Exit1("ConnectionError: Web3 is not connected to any Ethereum node")
            /\ UNCHANGED probes
       ELSE \E outcome \in ProbeOutcomes :
            /\ probes' = Append(probes, Probe("final", web3_instance, outcome))
            /\ IF outcome = "connected"
               THEN /\ pc' = "deploy"
                    /\ UNCHANGED <<error, stderr, exit_code>>
               ELSE Exit1(IF outcome = "not_connected"
                          THEN "ConnectionError: Web3 is not connected to any Ethereum node"
                          ELSE "Exception: is_connected raised")
    /\ UNCHANGED <<rpc_url_env, web3_instance, connected_rpc, rpc_index, env, fs,
                   node, calls, stdout, deployed_contracts, deployed_addresses,
                   resolved>>

\* Lines 267-363: the rest of the run, in the environment, working directory
\* and node behaviour it meets.
RunDeployments ==
    /\ pc = "deploy"
    /\ \E e \in Envs, f \in Filesystems, n \in Nodes :
        LET r == run_deployments(e, f, n)
        IN /\ env' = e
           /\ fs' = f
           /\ node' = n
           /\ calls' = calls \o r.calls
           /\ stdout' = stdout \o r.stdout
           /\ stderr' = stderr \o r.stderr
           /\ deployed_contracts' = r.deployed_contracts
           /\ deployed_addresses' = r.deployed_addresses
           /\ error' = r.error
           /\ exit_code' = r.exit_code
    /\ pc' = "exited"
    /\ UNCHANGED <<rpc_url_env, web3_instance, connected_rpc, rpc_index, probes,
                   resolved>>

Next == ProbeEnv \/ ProbeFallback \/ FinalCheck \/ RunDeployments

Spec == Init /\ [][Next]_vars

(***************************************************************************)
(* The resolver on its own: _get_latest_artifact_path applied to a working *)
(* directory whose glob lists up to MaxDirs entries, in any order, files   *)
(* and directories, with modification times 0..MaxMtime.  Every directory  *)
(* holds both artifacts.                                                   *)
(***************************************************************************)
DirEntries ==
    [name : {DirName(i) : i \in 1..MaxDirs}, isdir : BOOLEAN, mtime : 0..MaxMtime]

Globs ==
    UNION {{g \in [1..n -> DirEntries] :
               \A i, j \in 1..n : i # j => g[i].name # g[j].name} : n \in 1..MaxDirs}

FilesOf(glob) ==
    {Artifact(glob[i].name, c, <<"abi">>, <<"0x", "code">>) :
        i \in {j \in 1..Len(glob) : glob[j].isdir}, c \in ContractNames}

ResolveFilesystems == {[glob |-> g, files |-> FilesOf(g)] : g \in Globs}

InitResolve ==
    /\ pc = "resolve"
    /\ fs \in ResolveFilesystems
    /\ rpc_url_env = None
    /\ web3_instance = None
    /\ connected_rpc = None
    /\ rpc_index = 1
    /\ probes = <<>>
    /\ env = NoEnv
    /\ node = NoNode
    /\ calls = <<>>
    /\ stdout = <<>>
    /\ stderr = <<>>
    /\ deployed_contracts = {}
    /\ deployed_addresses = {}
    /\ error = "none"
    /\ exit_code = -1
    /\ resolved = NotResolved

\* One call of _get_latest_artifact_path, awaited
Resolve ==
    /\ pc = "resolve"
    /\ \E contract_name \in ContractNames \cup {"Unknown"} :
        resolved' = [contract_name |-> contract_name,
                     result |-> _get_latest_artifact_path(contract_name, fs)]
    /\ pc' = "resolved"
    /\ UNCHANGED <<rpc_url_env, web3_instance, connected_rpc, rpc_index, probes,
                   env, fs, node, calls, stdout, stderr, deployed_contracts,
                   deployed_addresses, error, exit_code>>

NextResolve == Resolve

SpecResolve == InitResolve /\ [][NextResolve]_vars

(***************************************************************************)
(* Vocabulary of the properties.                                           *)
(***************************************************************************)
IsEnvProbe(p) == p.via = "env"
IsFallbackProbe(p) == p.via = "fallback"
EnvProbes == SelectSeq(probes, IsEnvProbe)
FallbackProbes == SelectSeq(probes, IsFallbackProbe)

\* main() is past the endpoint selection (lines 221-261)
SelectionDone == pc \in {"final_check", "deploy", "exited"}

\* RPC_URL is set and holds no placeholder: line 226 lets it be probed
UsableRpcUrl == ~falsy(rpc_url_env) /\ ~contains_placeholder(rpc_url_env)

\* The fallback probes so far are the first candidates of the default
\* network, in declared order, one probe each.
FallbackInDeclaredOrder ==
    /\ Len(FallbackProbes) <= Len(rpcUrls)
    /\ \A j \in 1..Len(FallbackProbes) : FallbackProbes[j].url = rpcUrls[j]

\* main() reached line 267: a DeployManager was made and used
DeploymentsAttempted ==
    \E i \in 1..Len(stdout) : stdout[i].line = "Attempting to deploy"

\* The queries and the submission that build and send a creation transaction
TxCallsMade ==
    {i \in 1..Len(calls) : calls[i].op \in TxQueries \cup {"send_raw_transaction"}}

\* Contracts whose creation transaction was confirmed with an address
ConfirmedContracts ==
    {c \in ContractNames :
        /\ node[c] = "address"
        /\ \E i \in 1..Len(calls) :
              calls[i].op = "wait_for_transaction_receipt" /\ calls[i].contract = c}

SummaryLines == {i \in 1..Len(stdout) : stdout[i].line = "json"}

ConnectionErrorText == "ConnectionError: Web3 is not connected to any Ethereum node"

\* The working directory holds a complete artifact of contract c in its
\* only artifact directory.
ArtifactComplete(c) ==
    \E f \in fs.files :
        /\ f.path = artifact_file_path(DirName(1), c)
        /\ f.json_ok /\ ~falsy(f.abi) /\ ~falsy(f.bytecode)

ArtifactLacksBytecode(c) ==
    \E f \in fs.files :
        /\ f.path = artifact_file_path(DirName(1), c)
        /\ f.json_ok /\ ~falsy(f.abi) /\ falsy(f.bytecode)

KeyUsable == env.PRIVATE_KEY \in {<<"key">>, <<"0x", "key">>}

\* Every input of the run after the selection is as a successful run needs
AllInputsGood ==
    /\ \A c \in ContractNames : ArtifactComplete(c) /\ node[c] = "address"
    /\ KeyUsable
    /\ env.USDT_WALLETS = <<"0xAAA", ",", " ", "0xBBB">>
    /\ env.USDT_TOKEN_ADDRESS = <<"0xToken">>

RecipientListInvalid ==
    env.USDT_WALLETS = <<"0xAAA", ",", " ", " ", "0xBBB", " ", ",", "invalid">>

(***************************************************************************)
(* Endpoint selection.                                                     *)
(***************************************************************************)
\* C4: the fallback candidates are probed in declared order, one probe each;
\* every probe before the last one failed, so no candidate after the first
\* one that answers is probed; and once the selection is over without a live
\* RPC_URL, either the last candidate probed answered and is the connection,
\* or all N candidates were probed and failed.
C4_FallbackStopsAtFirstLive ==
    /\ FallbackInDeclaredOrder
    /\ \A j \in 1..(Len(FallbackProbes) - 1) : FallbackProbes[j].outcome # "connected"
    /\ (SelectionDone /\ \A i \in 1..Len(EnvProbes) : EnvProbes[i].outcome # "connected")
       => LET k == Len(FallbackProbes)
          IN \/ /\ k >= 1
                /\ FallbackProbes[k].outcome = "connected"
                /\ web3_instance = rpcUrls[k]
                /\ connected_rpc = rpcUrls[k]
             \/ /\ k = Len(rpcUrls)
                /\ FallbackProbes[k].outcome # "connected"
                /\ web3_instance = None

\* Only the third of the four candidates answered: two failed probes, then
\* the successful one, and the fourth candidate was never probed.
C4_Witness ==
    /\ SelectionDone
    /\ EnvProbes = <<>>
    /\ Len(FallbackProbes) = 3
    /\ FallbackProbes[1].outcome = "not_connected"
    /\ FallbackProbes[2].outcome = "raises"
    /\ FallbackProbes[3].outcome = "connected"
    /\ web3_instance = rpcUrls[3]

\* C5: RPC_URL is probed, once and first, exactly when it is set and holds no
\* placeholder.  When that probe answers, the connection is bound to RPC_URL
\* and no fallback candidate is probed; when it fails (False or an
\* exception), or RPC_URL is unset, empty or a placeholder, the candidates of
\* the default network are probed from the first one on, in declared order.
C5_EnvFirstThenFallThrough ==
    SelectionDone =>
        /\ Len(EnvProbes) = (IF UsableRpcUrl THEN 1 ELSE 0)
        /\ EnvProbes # <<>> =>
              probes[1] = EnvProbes[1] /\ EnvProbes[1].url = rpc_url_env
        /\ IF EnvProbes # <<>> /\ EnvProbes[1].outcome = "connected"
           THEN /\ FallbackProbes = <<>>
                /\ web3_instance = rpc_url_env
                /\ connected_rpc = rpc_url_env
           ELSE /\ Len(FallbackProbes) >= 1
                /\ FallbackInDeclaredOrder
                /\ web3_instance # None => web3_instance \in {rpcUrls[j] : j \in 1..Len(rpcUrls)}

\* RPC_URL was probed and raised; the selection fell through to the
\* candidates and the second one answered.
C5_Witness ==
    /\ SelectionDone
    /\ rpc_url_env = <<"https://my-node.example">>
    /\ EnvProbes # <<>>
    /\ EnvProbes[1].outcome = "raises"
    /\ Len(FallbackProbes) = 2
    /\ web3_instance = rpcUrls[2]

NoneResponded == \A i \in 1..Len(probes) : probes[i].outcome # "connected"

\* C9: when the selection is over and no probe answered, RPC_URL was probed
\* at most once and every candidate of the default network exactly once, in
\* order; main() does not go on to the deployments: it ends with the
\* connection error and exit code 1, no call was made on a connection,
\* nothing was deployed, and neither the signing key nor an artifact was read.
C9_NoLiveEndpointFails ==
    (SelectionDone /\ NoneResponded) =>
        /\ web3_instance = None
        /\ Len(EnvProbes) <= 1
        /\ FallbackInDeclaredOrder
        /\ Len(FallbackProbes) = Len(rpcUrls)
        /\ Len(probes) = Len(EnvProbes) + Len(FallbackProbes)
        /\ pc # "deploy"
        /\ pc = "exited" => error = ConnectionErrorText /\ exit_code = 1
        /\ calls = <<>>
        /\ ~DeploymentsAttempted
        /\ deployed_contracts = {}
        /\ env = NoEnv /\ fs = NoFs

\* RPC_URL and the four candidates were probed, none answered, and the run
\* has ended.
C9_Witness ==
    /\ pc = "exited"
    /\ NoneResponded
    /\ Len(EnvProbes) = 1
    /\ Len(FallbackProbes) = 4
    /\ exit_code = 1

(***************************************************************************)
(* The run as a whole.                                                     *)
(***************************************************************************)
BothDeployed ==
    /\ exit_code = 0
    /\ dict_keys(deployed_contracts) = ContractNames
    /\ ConfirmedContracts = ContractNames
    /\ SummaryLines = {Len(stdout)}
    /\ stdout[Len(stdout)].json =
          {<<"API_KEY_GENERATOR_ADDRESS", ReceiptAddress["QuantumAPIKeyGenerator"]>>,
           <<"SMART_CONTRACT_ADDRESS", ReceiptAddress["RevenueDistributor"]>>}

NothingDeployed ==
    /\ exit_code = 1
    /\ deployed_contracts = {}
    /\ ConfirmedContracts = {}
    /\ SummaryLines = {}

FirstDeploymentFailed ==
    \E i \in 1..Len(stdout) :
        /\ stdout[i].line = "Error during deployment of"
        /\ stdout[i].about = "QuantumAPIKeyGenerator"

C3_DeployRecordsAddress ==
    (/\ pc = "exited"
     /\ DeploymentsAttempted
     /\ ArtifactComplete("QuantumAPIKeyGenerator")
     /\ node["QuantumAPIKeyGenerator"] = "address"
     /\ KeyUsable)
    => /\ \E i \in 1..Len(calls) :
             /\ calls[i].op = "send_raw_transaction"
             /\ calls[i].contract = "QuantumAPIKeyGenerator"
       /\ <<"QuantumAPIKeyGenerator", ReceiptAddress["QuantumAPIKeyGenerator"]>>
             \in deployed_contracts

DistinctDirectories ==
    /\ \A i \in 1..Len(fs.glob) : fs.glob[i].isdir
    /\ \A i, j \in 1..Len(fs.glob) : i # j => fs.glob[i].mtime # fs.glob[j].mtime

LatestDirectory ==
    CHOOSE i \in 1..Len(fs.glob) :
        \A j \in 1..Len(fs.glob) : fs.glob[j].mtime <= fs.glob[i].mtime

\* C8: for a non-empty glob of directories with pairwise distinct
\* modification times, in whatever order, _get_latest_artifact_path returns
\* the artifact path inside the directory with the greatest modification
\* time.
C8_ResolverPicksLatest ==
    (/\ pc = "resolved"
     /\ resolved.contract_name \in ContractNames
     /\ DistinctDirectories)
    => /\ resolved.result.ok
       /\ resolved.result.value.path =
             artifact_file_path(fs.glob[LatestDirectory].name, resolved.contract_name)

\* What the resolver does: under the same conditions it returns the path in
\* the latest directory when that directory's modification time is above 0,
\* the initial value of latest_mod_time, and raises otherwise.
ResolverPicksLatestAboveZero ==
    (/\ pc = "resolved"
     /\ resolved.contract_name \in ContractNames
     /\ DistinctDirectories)
    => IF fs.glob[LatestDirectory].mtime > 0
       THEN /\ resolved.result.ok
            /\ resolved.result.value.path =
                  artifact_file_path(fs.glob[LatestDirectory].name,
                                     resolved.contract_name)
       ELSE resolved.result = Raise("FileNotFoundError: no latest artifact directory")

=============================================================================
